---- MODULE Spec2Model ----
(***************************************************************************)
(* Candidate record store and PDF export of the Bewerbermanagement-Tool,   *)
(* modelled from src/server.py (class CandidateServer and its helpers).    *)
(* src/app.py implements the same SQL statements behind Flask routes.      *)
(*                                                                         *)
(* Text is a sequence of tokens (a token is one character, or one literal  *)
(* chunk of a template or of a JSON keyword).  JSON / Python values and    *)
(* SQLite cells are tagged records of one fixed shape each, so that any    *)
(* two of them can be compared.                                            *)
(***************************************************************************)
EXTENDS Integers, Sequences, FiniteSets, TLC

(* ------------------------------ bounds --------------------------------- *)
\* random.randint(0, 99999) is narrowed to 0..MaxNumber
MaxNumber == 1
\* number of distinct instants datetime.utcnow() can return
MaxClock == 2
\* number of requests in one run that write to the table or create files
MaxWrites == 3

(* ------------------------- JSON / Python values ------------------------ *)
JNull == [t |-> "null", s |-> <<>>, n |-> 0, o |-> <<>>]
JStr(s) == [t |-> "str", s |-> s, n |-> 0, o |-> <<>>]
JInt(n) == [t |-> "int", s |-> <<>>, n |-> n, o |-> <<>>]
JBool(b) == [t |-> "bool", s |-> <<>>, n |-> IF b THEN 1 ELSE 0, o |-> <<>>]
\* an object is the sequence of its (key, number) members in insertion order
JObj(o) == [t |-> "obj", s |-> <<>>, n |-> 0, o |-> o]

\* Python truthiness: `if value`, `value or {}`, bool(value)
Truthy(j) ==
  CASE j.t = "null" -> FALSE
    [] j.t = "bool" -> j.n = 1
    [] j.t = "int" -> j.n # 0
    [] j.t = "str" -> j.s # <<>>
    [] OTHER -> j.o # <<>>

(* ------------------------------ SQLite cells --------------------------- *)
SNull == [k |-> "NULL", s |-> <<>>, n |-> 0]
SText(s) == [k |-> "TEXT", s |-> s, n |-> 0]
SInt(n) == [k |-> "INTEGER", s |-> <<>>, n |-> n]

Digits == <<"0", "1", "2", "3", "4", "5", "6", "7", "8", "9">>

RECURSIVE Decimal(_)
\* str(n) / f"{n}" of a non-negative integer
Decimal(n) ==
  IF n < 10 THEN <<Digits[n + 1]>>
  ELSE Decimal(n \div 10) \o <<Digits[(n % 10) + 1]>>

RECURSIVE ZeroPad(_, _)
\* the format specification :05d
ZeroPad(s, w) == IF Len(s) >= w THEN s ELSE ZeroPad(<<"0">> \o s, w)

Year == 2025

\* generate_candidate_id() for the drawn number
generate_candidate_id(number) ==
  <<"B", "W", "-">> \o Decimal(Year) \o <<"-">> \o ZeroPad(Decimal(number), 5)

Numbers == 0..MaxNumber
CandidateIds == {generate_candidate_id(n) : n \in Numbers}

\* datetime.utcnow().isoformat() at instant t
isoformat(t) == <<"T">> \o Decimal(t)

(* --------------------------- json.dumps / json.loads ------------------- *)
\* Keys hold neither the quote nor the backslash token, so no escape
\* sequence is ever produced or read.
Quote == "\""

Member(m) == <<Quote>> \o m[1] \o <<Quote, ":", " ">> \o Decimal(m[2])

RECURSIVE Members(_)
Members(o) ==
  IF o = <<>> THEN <<>>
  ELSE Member(Head(o)) \o (IF Tail(o) = <<>> THEN <<>> ELSE <<",", " ">> \o Members(Tail(o)))

\* json.dumps(value) with the default separators
json_dumps(j) ==
  CASE j.t = "null" -> <<"null">>
    [] j.t = "bool" -> IF j.n = 1 THEN <<"true">> ELSE <<"false">>
    [] j.t = "int" -> Decimal(j.n)
    [] j.t = "str" -> <<Quote>> \o j.s \o <<Quote>>
    [] OTHER -> <<"{">> \o Members(j.o) \o <<"}">>

DigitValue(c) == CHOOSE d \in 0..9 : Digits[d + 1] = c

IsDigit(c) == \E d \in 1..10 : Digits[d] = c

RECURSIVE ScanQuote(_, _)
\* index of the first quote token at or after position i
ScanQuote(s, i) == IF s[i] = Quote THEN i ELSE ScanQuote(s, i + 1)

RECURSIVE ScanDigits(_, _, _)
\* the number starting at position i and the position after it
ScanDigits(s, i, acc) ==
  IF i <= Len(s) /\ IsDigit(s[i])
  THEN ScanDigits(s, i + 1, (acc * 10) + DigitValue(s[i]))
  ELSE [val |-> acc, next |-> i]

RECURSIVE ParseMembers(_, _)
\* the members of an object whose text continues at position i
ParseMembers(s, i) ==
  IF s[i] = "}" THEN <<>>
  ELSE LET j == ScanQuote(s, i + 1)
           key == SubSeq(s, i + 1, j - 1)
           num == ScanDigits(s, j + 3, 0)
       IN  <<<<key, num.val>>>> \o
           (IF s[num.next] = "," THEN ParseMembers(s, num.next + 2) ELSE <<>>)

\* json.loads(text) for the texts json.dumps writes
json_loads(s) ==
  CASE Head(s) = "null" -> JNull
    [] Head(s) = "true" -> JBool(TRUE)
    [] Head(s) = "false" -> JBool(FALSE)
    [] Head(s) = Quote -> JStr(SubSeq(s, 2, ScanQuote(s, 2) - 1))
    [] Head(s) = "{" -> JObj(ParseMembers(s, 2))
    [] OTHER -> JInt(ScanDigits(s, 1, 0).val)

(* ------------------------------- the table ----------------------------- *)
TextColumns ==
  {"self_reflection", "conclusion", "notes", "star_notes", "vesier_notes",
   "reflection_consistency", "consent_date"}

Columns == {"id", "created_at", "ratings", "consented"} \cup TextColumns

\* BlankRow with the column default of consented taken as 1
BlankRowConsented(candidate_id, created_at) ==
  [c \in Columns |->
     CASE c = "id" -> SText(candidate_id)
       [] c = "created_at" -> SText(created_at)
       [] c = "consented" -> SInt(1)
       [] OTHER -> SNull]

\* the row INSERT INTO candidates (id, created_at) VALUES (?, ?) adds:
\* every other column takes its default, NULL, and consented DEFAULT 0
BlankRow(candidate_id, created_at) ==
  [c \in Columns |->
     CASE c = "id" -> SText(candidate_id)
       [] c = "created_at" -> SText(created_at)
       [] c = "consented" -> SInt(0)
       [] OTHER -> SNull]

\* what the sqlite3 module hands back for a stored cell
FromCell(cell) ==
  CASE cell.k = "NULL" -> JNull
    [] cell.k = "TEXT" -> JStr(cell.s)
    [] OTHER -> JInt(cell.n)

\* dict_from_row testing the decoded ratings instead of the stored text
dict_from_row_decoded_test(row) ==
  [c \in Columns |->
     CASE c = "ratings" ->
            IF Truthy(FromCell(row[c])) /\ Truthy(json_loads(row[c].s))
            THEN json_loads(row[c].s) ELSE JNull
       [] c = "consented" -> JBool(Truthy(FromCell(row[c])))
       [] OTHER -> FromCell(row[c])]

dict_from_row(row) ==
  [c \in Columns |->
     CASE c = "ratings" ->
            IF Truthy(FromCell(row[c])) THEN json_loads(row[c].s) ELSE JNull
       [] c = "consented" -> JBool(Truthy(FromCell(row[c])))
       [] OTHER -> FromCell(row[c])]

\* SELECT * FROM candidates WHERE id = ?
SelectById(rows, candidate_id) == {r \in rows : r["id"] = SText(candidate_id)}

StoredIds(rows) == {r["id"].s : r \in rows}

(* ------------------------------ build_html ----------------------------- *)
\* esc(val): the value, or a placeholder dash when it is None or empty
esc(val) == IF Truthy(val) THEN val.s ELSE <<"-">>

RECURSIVE RatingsRows(_)
\* one table row per member of the ratings mapping
RatingsRows(o) ==
  IF o = <<>> THEN <<>>
  ELSE <<"<tr><td>">> \o Head(o)[1] \o <<"</td><td>">> \o Decimal(Head(o)[2])
       \o <<"</td></tr>">> \o RatingsRows(Tail(o))

\* candidate['ratings'] without the default
RatingsUndefaulted(candidate) == candidate["ratings"]

\* candidate.get('ratings') or {}
RatingsOrEmpty(candidate) ==
  IF Truthy(candidate["ratings"]) THEN candidate["ratings"] ELSE JObj(<<>>)

\* ratings.items() exists only for a mapping; any other truthy value raises
\* AttributeError
HtmlBuilds(candidate) == RatingsOrEmpty(candidate).t = "obj"

build_html(candidate) ==
  <<"<html><head><title>Bewerberauswertung ">> \o candidate["id"].s
  \o <<"</title></head><body><h1>Auswertung ">> \o candidate["id"].s
  \o <<"</h1><p>Erstellt am ">> \o candidate["created_at"].s
  \o <<"</p><h2>Selbstreflexion</h2><p>">> \o esc(candidate["self_reflection"])
  \o <<"</p><h2>Bewertung</h2><table><tr><th>Dimension</th><th>Bewertung</th></tr>">>
  \o RatingsRows(RatingsOrEmpty(candidate).o)
  \o <<"</table><h2>Notizen</h2><p>">> \o esc(candidate["notes"])
  \o <<"</p><h2>STAR-Notizen</h2><p>">> \o esc(candidate["star_notes"])
  \o <<"</p><h2>VeSiEr-Notizen</h2><p>">> \o esc(candidate["vesier_notes"])
  \o <<"</p><h2>Fazit</h2><p>">> \o esc(candidate["conclusion"])
  \o <<"</p></body></html>">>

\* what Chromium prints for an HTML document
PrintToPdf(html) == <<"%PDF">> \o html

(* ------------------------------- responses ----------------------------- *)
\* status 0: no response was written.  raised names the exception that left
\* the handler; the server logs it and closes the connection.  error is the
\* fixed text of an error body, detail the str(e) interpolated after it.
Blank ==
  [status |-> 0, raised |-> "", error |-> "", detail |-> "", ack |-> "",
   candidate |-> {}, candidates |-> {}, created |-> {}, pdf |-> <<>>, filename |-> <<>>]

Unanswered(exception) == [Blank EXCEPT !.raised = exception]

ErrorResponse(status, message) == [Blank EXCEPT !.status = status, !.error = message]

AckResponse(word) == [Blank EXCEPT !.status = 200, !.ack = word]

(* ------------------------------- requests ------------------------------ *)
EmptyBody == [k \in {} |-> JNull]

\* body is the parsed JSON object of a PUT; raw says what the body was when
\* it was no JSON object
Request(op, id, body) == [op |-> op, id |-> id, body |-> body, raw |-> ""]

MalformedRequest(id, kind) == [Request("update_malformed", id, EmptyBody) EXCEPT !.raw = kind]

NoRequest == Request("none", <<>>, EmptyBody)

(* -------------------------------- handlers ----------------------------- *)
\* Each handler is an operator from the table (and the request) to the table
\* it leaves and the response it writes.  No handler closes its connection
\* when c.execute raises: leak says that the connection it leaves behind has
\* an open write transaction, which keeps the database locked against every
\* other writer (their c.execute raises OperationalError 'database is
\* locked') until the garbage collector closes that connection.
Outcome(rows, response) == [rows |-> rows, resp |-> response, leak |-> FALSE]

Leaking(rows, response) == [rows |-> rows, resp |-> response, leak |-> TRUE]

\* a listing with WHERE consented = 1
ListCandidatesConsentedOnly(rows) ==
  Outcome(rows,
    [Blank EXCEPT !.status = 200,
                  !.candidates =
                    {[id |-> FromCell(r["id"]), created_at |-> FromCell(r["created_at"]),
                      consented |-> JBool(Truthy(FromCell(r["consented"])))] :
                       r \in {x \in rows : x["consented"] = SInt(1)}}])

\* do_GET on /api/candidates
ListCandidates(rows) ==
  Outcome(rows,
    [Blank EXCEPT !.status = 200,
                  !.candidates =
                    {[id |-> FromCell(r["id"]), created_at |-> FromCell(r["created_at"]),
                      consented |-> JBool(Truthy(FromCell(r["consented"])))] : r \in rows}])

\* do_GET on /api/candidates/<id>
GetCandidate(rows, candidate_id) ==
  LET found == SelectById(rows, candidate_id)
  IN  IF found = {} THEN Outcome(rows, ErrorResponse(404, "Candidate not found"))
      ELSE Outcome(rows, [Blank EXCEPT !.status = 200,
                                       !.candidate = {dict_from_row(r) : r \in found}])

\* do_POST on /api/candidates, for the id and the timestamp the handler drew;
\* the PRIMARY KEY makes the INSERT raise sqlite3.IntegrityError on a stored
\* id, inside the transaction the INSERT has begun
CreateCandidate(rows, lock, candidate_id, created_at) ==
  IF lock THEN Outcome(rows, Unanswered("OperationalError"))
  ELSE IF SelectById(rows, candidate_id) # {}
  THEN Leaking(rows, Unanswered("IntegrityError"))
  ELSE Outcome(rows \cup {BlankRow(candidate_id, created_at)},
               [Blank EXCEPT !.status = 201,
                             !.created = {[id |-> JStr(candidate_id),
                                           created_at |-> JStr(created_at)]}])

\* the allow-list with created_at added to it
allowed_fields_with_created_at == TextColumns \cup {"ratings", "consented", "created_at"}

allowed_fields == TextColumns \cup {"ratings", "consented"}

\* the loop copying every key of the body
updates_unfiltered(data) == data

\* the loop that copies the allow-listed keys of the body
updates(data) == [key \in DOMAIN data \cap allowed_fields |-> data[key]]

\* binding the value of consented as it was sent
ParameterRawConsented(key, value) ==
  CASE key = "ratings" /\ value.t # "null" -> SText(json_dumps(value))
    [] key = "consented" -> SInt(value.n)
    [] value.t = "null" -> SNull
    [] value.t = "str" -> SText(value.s)
    [] OTHER -> SText(Decimal(value.n))

\* the value bound to the placeholder of one SET clause, as the column stores
\* it: a number or boolean bound to a TEXT column is stored as its text
Parameter(key, value) ==
  CASE key = "ratings" /\ value.t # "null" -> SText(json_dumps(value))
    [] key = "consented" -> SInt(IF Truthy(value) THEN 1 ELSE 0)
    [] value.t = "null" -> SNull
    [] value.t = "str" -> SText(value.s)
    [] OTHER -> SText(Decimal(value.n))

\* sqlite3 refuses to bind a dict: c.execute raises ProgrammingError
Binds(upd) ==
  \A key \in DOMAIN upd :
    (key = "ratings" /\ upd[key].t # "null") \/ key = "consented" \/ upd[key].t # "obj"

\* the UPDATE without its WHERE clause
ExecuteUpdateEveryRow(rows, candidate_id, upd) ==
  {[c \in Columns |-> IF c \in DOMAIN upd THEN Parameter(c, upd[c]) ELSE r[c]] : r \in rows}

\* an update that writes the whole row anew (INSERT OR REPLACE): the columns
\* the body does not name fall back to NULL
ExecuteUpdateReplacingRow(rows, candidate_id, upd) ==
  {IF r["id"] = SText(candidate_id)
   THEN [c \in Columns |->
           IF c \in DOMAIN upd THEN Parameter(c, upd[c])
           ELSE IF c \in {"id", "created_at", "consented"} THEN r[c] ELSE SNull]
   ELSE r : r \in rows}

\* UPDATE candidates SET ... WHERE id = ?
ExecuteUpdate(rows, candidate_id, upd) ==
  {IF r["id"] = SText(candidate_id)
   THEN [c \in Columns |-> IF c \in DOMAIN upd THEN Parameter(c, upd[c]) ELSE r[c]]
   ELSE r : r \in rows}

\* do_PUT on /api/candidates/<id> with a JSON object as body
UpdateCandidate(rows, lock, candidate_id, data) ==
  LET upd == updates(data)
  IN  IF DOMAIN upd = {} THEN Outcome(rows, ErrorResponse(400, "No valid fields to update"))
      ELSE IF ~Binds(upd) THEN Outcome(rows, Unanswered("ProgrammingError"))
      ELSE IF lock THEN Outcome(rows, Unanswered("OperationalError"))
      ELSE Outcome(ExecuteUpdate(rows, candidate_id, upd), AckResponse("updated"))

\* the DELETE without its WHERE clause
ExecuteDeleteEveryRow(rows, candidate_id) == {}

\* what the request body can be when it is no JSON object: text json.loads
\* rejects, bytes that are no UTF-8, or JSON of another type (a list, a
\* string, a number, a boolean or null)
MalformedBodies == {"invalid_json", "invalid_utf8", "non_object"}

\* do_PUT on /api/candidates/<id> for such a body: only JSONDecodeError is
\* caught; decode raises UnicodeDecodeError, and data.items() raises
\* AttributeError for a list, str, int, bool or None
UpdateMalformed(rows, kind) ==
  CASE kind = "invalid_json" -> Outcome(rows, ErrorResponse(400, "Invalid JSON"))
    [] kind = "invalid_utf8" -> Outcome(rows, Unanswered("UnicodeDecodeError"))
    [] OTHER -> Outcome(rows, Unanswered("AttributeError"))

\* DELETE FROM candidates WHERE id = ?
ExecuteDelete(rows, candidate_id) == {r \in rows : r["id"] # SText(candidate_id)}

\* do_DELETE on /api/candidates/<id>
DeleteCandidate(rows, lock, candidate_id) ==
  IF lock THEN Outcome(rows, Unanswered("OperationalError"))
  ELSE Outcome(ExecuteDelete(rows, candidate_id), AckResponse("deleted"))

(* ------------------------------ PDF export ----------------------------- *)
\* a file of the temporary directory
TmpFile(name, suffix) == [name |-> name, suffix |-> suffix]

\* a temporary file under one fixed name per suffix
NamedTemporaryFileFixed(files, suffix) == TmpFile(1, suffix)

\* tempfile.NamedTemporaryFile(delete=False, suffix=...) creates a file under
\* a random name the directory does not hold yet (O_EXCL); the names are
\* interchangeable, so the lowest unused one stands for all of them
NamedTemporaryFile(files, suffix) ==
  TmpFile(CHOOSE n \in 1..(Cardinality(files) + 1) :
            /\ TmpFile(n, suffix) \notin files
            /\ \A m \in 1..(n - 1) : TmpFile(m, suffix) \in files,
          suffix)

\* subprocess.run(cmd, check=True): Chromium exits 0, the binary is not
\* found (FileNotFoundError), or it exits non-zero (CalledProcessError)
ChromiumOutcomes == {"ok", "missing", "nonzero"}

\* str(e) of the exception subprocess.run raised
ChromiumError(outcome) ==
  IF outcome = "missing"
  THEN "[Errno 2] No such file or directory: 'chromium'"
  ELSE "Command '[chromium ...]' returned non-zero exit status 1."

\* the files generate_pdf_from_html and the export branch leave behind: the
\* two unlink calls are reached only when subprocess.run returns
FilesKept(pdf_file, html_file, outcome) ==
  IF outcome = "ok" THEN {} ELSE {pdf_file, html_file}

\* the export branch of do_POST once the row is found and the HTML is built
ExportResponse(candidate_id, html, outcome) ==
  IF outcome = "ok"
  THEN [Blank EXCEPT !.status = 200, !.pdf = PrintToPdf(html),
                     !.filename = candidate_id \o <<".pdf">>]
  ELSE [ErrorResponse(500, "PDF generation failed: ") EXCEPT !.detail = ChromiumError(outcome)]

\* spawned: the request has started Chromium
Exported(response, created, files, spawned) ==
  [resp |-> response, made |-> created, files |-> files, spawned |-> spawned]

\* an export that stores the defaulted ratings: UPDATE candidates SET
\* ratings = '{}' for the record whose ratings it found missing
ExportRowsRatingsWrittenBack(rows, candidate_id) ==
  {IF r["id"] = SText(candidate_id) /\ r["ratings"] = SNull
   THEN [r EXCEPT !["ratings"] = SText(<<"{", "}">>)]
   ELSE r : r \in rows}

\* the table the export branch leaves: it runs one SELECT and closes the
\* connection; the default for missing ratings is put into the local dict
ExportRows(rows, candidate_id) == rows

\* a handler that started the renderer before looking the record up
ExportNotFoundAfterSpawn(files) ==
  LET pdf_file == NamedTemporaryFile(files, ".pdf")
  IN  Exported(ErrorResponse(404, "Candidate not found"), {pdf_file}, files, TRUE)

\* the row is None: 404 before build_html or generate_pdf_from_html is called
ExportNotFound(files) == Exported(ErrorResponse(404, "Candidate not found"), {}, files, FALSE)

\* do_POST on /api/candidates/<id>/export: the response, the temporary
\* files the request created and the files the directory holds afterwards.
\* build_html raises for ratings it cannot iterate, before any file exists.
ExportCandidate(rows, files, candidate_id, outcome) ==
  LET found == SelectById(rows, candidate_id)
  IN  IF found = {} THEN ExportNotFound(files)
      ELSE LET candidate == dict_from_row(CHOOSE r \in found : TRUE)
               pdf_file == NamedTemporaryFile(files, ".pdf")
               html_file == NamedTemporaryFile(files \cup {pdf_file}, ".html")
           IN  IF ~HtmlBuilds(candidate)
               THEN Exported(Unanswered("AttributeError"), {}, files, FALSE)
               ELSE Exported(ExportResponse(candidate_id, build_html(candidate), outcome),
                             {pdf_file, html_file},
                             files \cup FilesKept(pdf_file, html_file, outcome),
                             TRUE)

(* --------------------------- request inputs ---------------------------- *)
K4 == <<<<(<<"K">>), 4>>>>
K4T2 == <<<<(<<"K">>), 4>>, <<(<<"T">>), 2>>>>

TextInputs == {JNull, JStr(<<>>), JStr(<<"a">>), JInt(5), JObj(K4)}

RatingsInputs == {JNull, JObj(<<>>), JObj(K4), JObj(K4T2), JInt(5)}

ConsentedInputs ==
  {JNull, JBool(TRUE), JBool(FALSE), JInt(0), JInt(1), JStr(<<>>), JStr(<<"a">>), JObj(<<>>)}

\* the PUT bodies of the model: every column alone, keys outside the
\* allow-list alone and mixed with allow-listed ones, and the empty object
Bodies ==
  {EmptyBody}
  \cup {("unknown_field" :> JStr(<<"x">>))}
  \cup {("id" :> JStr(<<"X">>)) @@ ("created_at" :> JStr(<<"T", "9">>))}
  \cup {("notes" :> v) : v \in TextInputs}
  \cup {("ratings" :> v) : v \in RatingsInputs}
  \cup {("consented" :> v) : v \in ConsentedInputs}
  \cup {("self_reflection" :> JStr(<<"a">>)) @@ ("conclusion" :> JStr(<<>>))
        @@ ("star_notes" :> JNull) @@ ("vesier_notes" :> JStr(<<"<">>))
        @@ ("reflection_consistency" :> JInt(5)) @@ ("consent_date" :> JStr(<<"d">>))}
  \cup {("notes" :> JStr(<<"b">>)) @@ ("id" :> JStr(<<"X">>))
        @@ ("created_at" :> JStr(<<"T", "9">>)) @@ ("consented" :> JBool(TRUE))}

(* ------------------------- concurrent requests ------------------------- *)
\* Requests in flight at once.  HTTPServer in src/server.py serves one
\* request to its end before it accepts the next, so its behaviours are the
\* interleavings in which the requests do not overlap; src/app.py under
\* several WSGI workers overlaps them.  Both share one table and one /tmp.
MaxRequests == 3

Slots == {1, 2}

Implementations == {"server.py", "app.py"}

\* jinja2: {{ value | default(placeholder, true) }}
default(val, placeholder) == IF Truthy(val) THEN val.s ELSE placeholder

\* build_html_for_candidate of src/app.py (u-umlaut written ue, the en dash
\* written --)
build_html_for_candidate(candidate) ==
  <<"<html><head><title>Bewerberauswertung ">> \o candidate["id"].s
  \o <<"</title></head><body><h1>Auswertung fuer Bewerber ">> \o candidate["id"].s
  \o <<"</h1><p>Erstellt am ">> \o candidate["created_at"].s
  \o <<"</p><h2>Selbstreflexion</h2><p>">>
  \o default(candidate["self_reflection"], <<"Keine Angaben">>)
  \o <<"</p><h2>Bewertung (1--5)</h2><table><tr><th>Dimension</th><th>Bewertung</th></tr>">>
  \o RatingsRows(candidate["ratings"].o)
  \o <<"</table><h2>Notizen</h2><p>">> \o default(candidate["notes"], <<"--">>)
  \o <<"</p><h2>STAR-Notizen</h2><p>">> \o default(candidate["star_notes"], <<"--">>)
  \o <<"</p><h2>VeSiEr-Notizen</h2><p>">> \o default(candidate["vesier_notes"], <<"--">>)
  \o <<"</p><h2>Fazit</h2><p>">> \o default(candidate["conclusion"], <<"--">>)
  \o <<"</p></body></html>">>

\* export_candidate of src/app.py: if not candidate.get('ratings'):
\* candidate['ratings'] = {}
WithRatings(candidate) == [candidate EXCEPT !["ratings"] = RatingsOrEmpty(candidate)]

\* os.path.join('/tmp', f"{candidate_id}.pdf")
tmp_pdf(candidate_id) == TmpFile(candidate_id, ".pdf")

NoFile == TmpFile(0, "")

\* the HTML one export request builds from the row it selected
ExportHtml(implementation, row) ==
  IF implementation = "server.py" THEN build_html(dict_from_row(row))
  ELSE build_html_for_candidate(WithRatings(dict_from_row(row)))

\* pyppeteer in export_candidate: launch is None, generate_pdf raises, or
\* page.pdf writes the file
PyppeteerOutcomes == {"ok", "unavailable", "failed"}

\* the two records the table holds when the requests arrive
InitialRows == {BlankRow(generate_candidate_id(n), isoformat(1)) : n \in 0..1}

\* the bodies of the concurrent updates: two that overlap in notes, one
\* disjoint from both
ConcurrentBodies ==
  {("notes" :> JStr(<<"b">>)),
   ("notes" :> JStr(<<"c">>)) @@ ("conclusion" :> JStr(<<"c">>)),
   ("ratings" :> JObj(K4))}

\* one request: where its handler stands (pc), what it was sent, what it
\* holds in local variables, its response, and the slots whose request it
\* has run at the same time as (met)
Idle ==
  [pc |-> "idle", op |-> "none", id |-> <<>>, data |-> EmptyBody, html |-> <<>>,
   pdf_path |-> NoFile, html_path |-> NoFile, resp |-> Blank, met |-> {}]

EmptyDisk == [f \in {} |-> <<>>]

\* os.unlink of a set of paths
Unlink(files, paths) == [f \in DOMAIN files \ paths |-> files[f]]

(* -------------------------------- state -------------------------------- *)
VARIABLES
  store,    \* the rows of table candidates
  fs,       \* the files in the temporary directory
  clock,    \* the latest instant datetime.utcnow() has returned
  req,      \* the request handled last
  resp,     \* the response to it
  prev,     \* the rows of the table when that request arrived
  made,     \* the temporary files created while handling it
  spawned,  \* whether Chromium was started while handling it
  issued,   \* the ids successful creates have returned, in order
  locked,   \* a leaked connection holds the write lock of the database
  writes,   \* number of requests so far that wrote to the table or created files
  impl,     \* the server that runs: src/server.py or src/app.py
  procs,    \* the requests in flight, one per slot
  disk,     \* the content of the files of /tmp the requests in flight made
  latest,   \* the slot of the request that committed last, 0 without one
  started   \* number of such requests so far

vars ==
  <<store, fs, clock, req, resp, prev, made, spawned, issued, locked, writes,
    impl, procs, disk, latest, started>>

\* the variables only requests in flight change
inflight == <<impl, procs, disk, latest, started>>

\* the variables only the requests served one after the other change
serial == <<fs, clock, req, resp, prev, made, spawned, issued, writes>>

Init ==
  /\ store = {}
  /\ fs = {}
  /\ clock = 1
  /\ req = NoRequest
  /\ resp = Blank
  /\ prev = {}
  /\ made = {}
  /\ spawned = FALSE
  /\ issued = <<>>
  /\ locked = FALSE
  /\ writes = 0
  /\ impl = "server.py"
  /\ procs = [p \in Slots |-> Idle]
  /\ disk = EmptyDisk
  /\ latest = 0
  /\ started = 0

\* what every handler does with the table and the response
Handle(request, outcome) ==
  /\ req' = request
  /\ resp' = outcome.resp
  /\ prev' = store
  /\ store' = outcome.rows
  /\ locked' = (locked \/ outcome.leak)
  /\ UNCHANGED inflight

Create(number, now) ==
  /\ writes < MaxWrites
  /\ LET candidate_id == generate_candidate_id(number)
         outcome == CreateCandidate(store, locked, candidate_id, isoformat(now))
     IN  /\ Handle(Request("create", candidate_id, EmptyBody), outcome)
         /\ issued' = IF outcome.resp.status = 201 THEN Append(issued, candidate_id)
                      ELSE issued
  /\ clock' = now
  /\ writes' = writes + 1
  /\ made' = {}
  /\ spawned' = FALSE
  /\ UNCHANGED fs

List ==
  /\ Handle(Request("list", <<>>, EmptyBody), ListCandidates(store))
  /\ made' = {}
  /\ spawned' = FALSE
  /\ UNCHANGED <<fs, clock, issued, writes>>

Get(candidate_id) ==
  /\ Handle(Request("get", candidate_id, EmptyBody), GetCandidate(store, candidate_id))
  /\ made' = {}
  /\ spawned' = FALSE
  /\ UNCHANGED <<fs, clock, issued, writes>>

Update(candidate_id, data) ==
  /\ writes < MaxWrites
  /\ Handle(Request("update", candidate_id, data), UpdateCandidate(store, locked, candidate_id, data))
  /\ writes' = writes + 1
  /\ made' = {}
  /\ spawned' = FALSE
  /\ UNCHANGED <<fs, clock, issued>>

PutMalformed(candidate_id, kind) ==
  /\ Handle(MalformedRequest(candidate_id, kind), UpdateMalformed(store, kind))
  /\ made' = {}
  /\ spawned' = FALSE
  /\ UNCHANGED <<fs, clock, issued, writes>>

Delete(candidate_id) ==
  /\ writes < MaxWrites
  /\ Handle(Request("delete", candidate_id, EmptyBody), DeleteCandidate(store, locked, candidate_id))
  /\ writes' = writes + 1
  /\ made' = {}
  /\ spawned' = FALSE
  /\ UNCHANGED <<fs, clock, issued>>

Export(candidate_id, outcome) ==
  LET done == ExportCandidate(store, fs, candidate_id, outcome)
      wrote == IF done.made = {} THEN 0 ELSE 1
  IN  /\ writes + wrote <= MaxWrites
      /\ Handle(Request("export", candidate_id, EmptyBody),
                Outcome(ExportRows(store, candidate_id), done.resp))
      /\ made' = done.made
      /\ spawned' = done.spawned
      /\ fs' = done.files
      /\ writes' = writes + wrote
      /\ UNCHANGED <<clock, issued>>

\* the garbage collector closes the leaked connection, which rolls its
\* transaction back
Collect ==
  /\ locked
  /\ locked' = FALSE
  /\ UNCHANGED <<store, fs, clock, req, resp, prev, made, spawned, issued, writes>>
  /\ UNCHANGED inflight

Next ==
  \/ \E number \in Numbers, now \in clock..(clock + 1) : now <= MaxClock /\ Create(number, now)
  \/ List
  \/ \E candidate_id \in CandidateIds : Get(candidate_id)
  \/ \E candidate_id \in CandidateIds, data \in Bodies : Update(candidate_id, data)
  \/ \E candidate_id \in CandidateIds, kind \in MalformedBodies :
       PutMalformed(candidate_id, kind)
  \/ \E candidate_id \in CandidateIds : Delete(candidate_id)
  \/ \E candidate_id \in CandidateIds, outcome \in ChromiumOutcomes :
       Export(candidate_id, outcome)
  \/ Collect

Spec == Init /\ [][Next]_vars

(* ------------------- the steps of requests in flight -------------------- *)
ConcInit ==
  /\ store = InitialRows
  /\ fs = {}
  /\ clock = 1
  /\ req = NoRequest
  /\ resp = Blank
  /\ prev = {}
  /\ made = {}
  /\ spawned = FALSE
  /\ issued = <<generate_candidate_id(0), generate_candidate_id(1)>>
  /\ locked = FALSE
  /\ writes = 0
  /\ impl \in Implementations
  /\ procs = [p \in Slots |-> Idle]
  /\ disk = EmptyDisk
  /\ latest = 0
  /\ started = 0

InFlight(p) == procs[p].pc \notin {"idle", "done"}

\* a request arrives and takes the lowest free slot (which slot it takes
\* makes no difference to any request); the request that was in the slot is
\* forgotten
Arrives(p, request) ==
  /\ ~InFlight(p)
  /\ \A q \in Slots : q < p => InFlight(q)
  /\ started < MaxRequests
  /\ started' = started + 1
  /\ latest' = IF latest = p THEN 0 ELSE latest
  /\ procs' = [q \in Slots |->
                 IF q = p THEN [request EXCEPT !.met = {o \in Slots \ {p} : InFlight(o)}]
                 ELSE [procs[q] EXCEPT !.met = @ \ {p}]]

\* the handler of slot p moves on, holding what update says
Step(p, update) == procs' = [procs EXCEPT ![p] = update]

\* the handler of slot p ends with this response
Done(p, response) == Step(p, [procs[p] EXCEPT !.pc = "done", !.resp = response])

\* export, both servers: SELECT the row, 404 without it, else build the HTML
StartExport(p, candidate_id) ==
  /\ LET found == SelectById(store, candidate_id)
         request == [Idle EXCEPT !.op = "export", !.id = candidate_id]
     IN  IF found = {}
         THEN Arrives(p, [request EXCEPT !.pc = "done", !.resp = ExportNotFound({}).resp])
         ELSE Arrives(p, [request EXCEPT
                            !.pc = IF impl = "server.py" THEN "tempfiles" ELSE "render",
                            !.html = ExportHtml(impl, CHOOSE r \in found : TRUE),
                            !.pdf_path = IF impl = "server.py" THEN NoFile
                                         ELSE tmp_pdf(candidate_id)])
  /\ UNCHANGED <<store, locked, disk, impl>>
  /\ UNCHANGED serial

\* src/server.py: NamedTemporaryFile for the PDF, then generate_pdf_from_html
\* writes the HTML into a second one
CreateTempFiles(p) ==
  /\ procs[p].pc = "tempfiles"
  /\ LET pdf_file == NamedTemporaryFile(DOMAIN disk, ".pdf")
         html_file == NamedTemporaryFile(DOMAIN disk \cup {pdf_file}, ".html")
     IN  /\ disk' = (pdf_file :> <<>>) @@ (html_file :> procs[p].html) @@ disk
         /\ Step(p, [procs[p] EXCEPT !.pc = "spawn", !.pdf_path = pdf_file,
                                     !.html_path = html_file])
  /\ UNCHANGED <<store, locked, impl, latest, started>>
  /\ UNCHANGED serial

\* subprocess.run starts Chromium, or raises FileNotFoundError at once
SpawnChromium(p, installed) ==
  /\ procs[p].pc = "spawn"
  /\ IF installed
     THEN Step(p, [procs[p] EXCEPT !.pc = "wait"])
     ELSE Done(p, ExportResponse(procs[p].id, procs[p].html, "missing"))
  /\ UNCHANGED <<store, locked, disk, impl, latest, started>>
  /\ UNCHANGED serial

\* Chromium exits: with 0 after printing the file of its URL into the file
\* of --print-to-pdf, or with another status.  subprocess.run waits for this
\* without a timeout.
ChromiumExits(p, outcome) ==
  /\ procs[p].pc = "wait"
  /\ IF outcome = "ok"
     THEN /\ disk' = IF procs[p].html_path \in DOMAIN disk
                     THEN (procs[p].pdf_path :> PrintToPdf(disk[procs[p].html_path])) @@ disk
                     ELSE disk
          /\ Step(p, [procs[p] EXCEPT !.pc = "read"])
     ELSE /\ Done(p, ExportResponse(procs[p].id, procs[p].html, "nonzero"))
          /\ UNCHANGED disk
  /\ UNCHANGED <<store, locked, impl, latest, started>>
  /\ UNCHANGED serial

\* subprocess.run has returned: unlink the HTML file, read the PDF file,
\* unlink it and send its bytes
SendPdf(p) ==
  /\ procs[p].pc = "read"
  /\ IF procs[p].pdf_path \in DOMAIN disk
     THEN Done(p, [Blank EXCEPT !.status = 200, !.pdf = disk[procs[p].pdf_path],
                                !.filename = procs[p].id \o <<".pdf">>])
     ELSE Done(p, Unanswered("FileNotFoundError"))
  /\ disk' = Unlink(disk, {procs[p].html_path, procs[p].pdf_path})
  /\ UNCHANGED <<store, locked, impl, latest, started>>
  /\ UNCHANGED serial

\* src/app.py: launch is None, or run_until_complete(generate_pdf(html,
\* tmp_pdf)) raises or writes the file
Render(p, outcome) ==
  /\ procs[p].pc = "render"
  /\ CASE outcome = "unavailable" ->
            /\ Done(p, ErrorResponse(500, "PDF generation unavailable (pyppeteer not installed)"))
            /\ UNCHANGED disk
       [] outcome = "failed" ->
            /\ Done(p, ErrorResponse(500, "PDF generation failed: "))
            /\ UNCHANGED disk
       [] OTHER ->
            /\ disk' = (procs[p].pdf_path :> PrintToPdf(procs[p].html)) @@ disk
            /\ Step(p, [procs[p] EXCEPT !.pc = "send"])
  /\ UNCHANGED <<store, locked, impl, latest, started>>
  /\ UNCHANGED serial

\* send_file(tmp_pdf): the file stays in /tmp
SendFile(p) ==
  /\ procs[p].pc = "send"
  /\ IF procs[p].pdf_path \in DOMAIN disk
     THEN Done(p, [Blank EXCEPT !.status = 200, !.pdf = disk[procs[p].pdf_path],
                                !.filename = procs[p].id \o <<".pdf">>])
     ELSE Done(p, Unanswered("FileNotFoundError"))
  /\ UNCHANGED <<store, locked, disk, impl, latest, started>>
  /\ UNCHANGED serial

\* update, both servers: parse the body, copy the allow-listed keys, 400 when
\* none is left
StartUpdate(p, candidate_id, data) ==
  /\ LET request == [Idle EXCEPT !.op = "update", !.id = candidate_id, !.data = data]
     IN  IF DOMAIN updates(data) = {}
         THEN Arrives(p, [request EXCEPT
                            !.pc = "done",
                            !.resp = UpdateCandidate(store, FALSE, candidate_id, data).resp])
         ELSE Arrives(p, [request EXCEPT !.pc = "execute"])
  /\ UNCHANGED <<store, locked, disk, impl>>
  /\ UNCHANGED serial

\* c.execute(UPDATE ...) opens a transaction and takes the write lock of the
\* database, once no other connection holds it
Execute(p) ==
  /\ procs[p].pc = "execute"
  /\ ~locked
  /\ locked' = TRUE
  /\ Step(p, [procs[p] EXCEPT !.pc = "commit"])
  /\ UNCHANGED <<store, disk, impl, latest, started>>
  /\ UNCHANGED serial

\* the lock was held for the five seconds of sqlite3's default timeout:
\* c.execute raises OperationalError
Busy(p) ==
  /\ procs[p].pc = "execute"
  /\ locked
  /\ Done(p, UpdateCandidate(store, TRUE, procs[p].id, procs[p].data).resp)
  /\ UNCHANGED <<store, locked, disk, impl, latest, started>>
  /\ UNCHANGED serial

\* conn.commit() makes the UPDATE visible and releases the lock
Commit(p) ==
  /\ procs[p].pc = "commit"
  /\ LET outcome == UpdateCandidate(store, FALSE, procs[p].id, procs[p].data)
     IN  /\ store' = outcome.rows
         /\ Done(p, outcome.resp)
  /\ locked' = FALSE
  /\ latest' = p
  /\ UNCHANGED <<disk, impl, started>>
  /\ UNCHANGED serial

\* the steps a handler takes by itself once it can
Proceeds(p) ==
  \/ CreateTempFiles(p)
  \/ \E installed \in BOOLEAN : SpawnChromium(p, installed)
  \/ SendPdf(p)
  \/ \E outcome \in PyppeteerOutcomes : Render(p, outcome)
  \/ SendFile(p)
  \/ Execute(p)
  \/ Commit(p)

ConcNext ==
  \/ \E p \in Slots, candidate_id \in StoredIds(InitialRows) : StartExport(p, candidate_id)
  \/ \E p \in Slots, candidate_id \in StoredIds(InitialRows), data \in ConcurrentBodies :
       StartUpdate(p, candidate_id, data)
  \/ \E p \in Slots : Proceeds(p)
  \/ \E p \in Slots, outcome \in {"ok", "nonzero"} : ChromiumExits(p, outcome)
  \/ \E p \in Slots : Busy(p)

\* A handler that can take its next step takes it.  Nothing obliges a request
\* to arrive, Chromium to exit, or a lock to be held for five seconds.
ConcSpec == ConcInit /\ [][ConcNext]_vars /\ \A p \in Slots : WF_vars(Proceeds(p))

(* ======================================================================= *)
(* Properties.  Each is stated over the last request (req), the table      *)
(* before it (prev), the table after it (store) and the response (resp);   *)
(* "followed by get(id)" is GetCandidate on the table after the request.   *)
(* ======================================================================= *)

\* the mutable field set as section 4.2 of the specification lists it
MutableFields ==
  {"self_reflection", "ratings", "conclusion", "notes", "star_notes", "vesier_notes",
   "reflection_consistency", "consented", "consent_date"}

\* the record get(id) returns on a table, where the id is stored
Fetched(rows, candidate_id) ==
  CHOOSE c \in GetCandidate(rows, candidate_id).resp.candidate : TRUE

OtherRows(rows, candidate_id) == {r \in rows : r["id"] # SText(candidate_id)}

UpdatedExisting ==
  req.op = "update" /\ resp.status = 200 /\ req.id \in StoredIds(prev)

\* C1: once an export request has returned, none of the temporary files
\* created for it (HTML or PDF) still exists, whether Chromium succeeded or
\* the invocation raised.
C1_TemporaryFilesReleased == req.op = "export" => made \cap fs = {}

\* C2 as claimed: after a successful update of an existing record every
\* allow-listed field named in the body reads back exactly as sent, every
\* other field of the record and every other record are unchanged, and keys
\* outside the allow-list have no effect.
C2_FieldsHoldValueSent ==
  UpdatedExisting =>
    /\ \A key \in Columns :
         Fetched(store, req.id)[key] =
           IF key \in DOMAIN req.body \cap MutableFields THEN req.body[key]
           ELSE Fetched(prev, req.id)[key]
    /\ OtherRows(store, req.id) = OtherRows(prev, req.id)

\* what a field reads back as after value was sent for it
ReadBack(key, value) ==
  CASE key = "consented" -> JBool(Truthy(value))
    [] key \in TextColumns /\ value.t \in {"int", "bool"} -> JStr(Decimal(value.n))
    [] OTHER -> value

\* C2 as amended: the same, except that consented reads back as the
\* truthiness of the value sent and a number or boolean sent for a text
\* field reads back as its decimal text.
C2_FieldsHoldValueStored ==
  UpdatedExisting =>
    /\ \A key \in Columns :
         Fetched(store, req.id)[key] =
           IF key \in DOMAIN req.body \cap MutableFields THEN ReadBack(key, req.body[key])
           ELSE Fetched(prev, req.id)[key]
    /\ OtherRows(store, req.id) = OtherRows(prev, req.id)

\* an update of one of two stored records that names two allow-listed fields
\* and two keys outside the allow-list
C2_Witness ==
  /\ UpdatedExisting
  /\ {"notes", "consented", "id", "created_at"} \subseteq DOMAIN req.body
  /\ OtherRows(store, req.id) # {}

\* C3: an update whose body holds no key of the mutable allow-list is
\* answered 400 'No valid fields to update' and leaves the table unchanged,
\* whether or not the id is stored.
C3_NoValidFieldsRejected ==
  (req.op = "update" /\ DOMAIN req.body \cap MutableFields = {}) =>
    /\ resp.status = 400
    /\ resp.error = "No valid fields to update"
    /\ store = prev

C3_Witness ==
  /\ req.op = "update"
  /\ DOMAIN req.body = {"id", "created_at"}
  /\ req.id \in StoredIds(prev)
  /\ resp.status = 400

\* C4: a create that draws a stored id is answered with HTTP 500, the stored
\* record keeps all its values and no record is added.
C4_CollisionAnswered500 ==
  (req.op = "create" /\ req.id \in StoredIds(prev)) =>
    /\ resp.status = 500
    /\ store = prev

\* C5: no two successful creates return the same id, also after the record
\* of the first has been deleted.
C5_IdsNeverReused ==
  \A i, j \in DOMAIN issued : i # j => issued[i] # issued[j]

\* C6: between its create and its delete a record keeps its id and its
\* created_at: every stored row is still there with both values after any
\* request other than the delete of its id.
C6_KeyAndTimestampImmutable ==
  \A r \in prev :
    \/ req.op = "delete" /\ SText(req.id) = r["id"]
    \/ \E q \in store : q["id"] = r["id"] /\ q["created_at"] = r["created_at"]

C6_Witness ==
  /\ UpdatedExisting
  /\ {"id", "created_at", "notes"} \subseteq DOMAIN req.body
  /\ Fetched(store, req.id)["notes"] = req.body["notes"]

\* C7: update(id, {ratings: m}) on a stored record, for a mapping m (the
\* empty one included) or null, followed by get(id) returns ratings = m.
C7_RatingsRoundTrip ==
  (UpdatedExisting /\ "ratings" \in DOMAIN req.body
     /\ req.body["ratings"].t \in {"obj", "null"}) =>
    Fetched(store, req.id)["ratings"] = req.body["ratings"]

\* the update stored the empty mapping over a non-empty one
C7_Witness ==
  /\ UpdatedExisting
  /\ "ratings" \in DOMAIN req.body
  /\ req.body["ratings"] = JObj(<<>>)
  /\ Fetched(prev, req.id)["ratings"] = JObj(K4T2)

\* C8: get of the id a successful create returned, with no write in
\* between, returns that id and created_at, every optional field null and
\* consented false.
C8_BlankAfterCreate ==
  (req.op = "create" /\ resp.status = 201) =>
    LET got == GetCandidate(store, req.id).resp
    IN  /\ got.status = 200
        /\ \A c \in got.candidate :
             /\ resp.created = {[id |-> c["id"], created_at |-> c["created_at"]]}
             /\ \A key \in MutableFields \ {"consented"} : c[key] = JNull
             /\ c["consented"] = JBool(FALSE)
        /\ got.candidate # {}

\* a second create succeeded while another record had been updated
C8_Witness ==
  /\ req.op = "create"
  /\ resp.status = 201
  /\ \E r \in prev : r["notes"] # SNull

\* C9: after delete(id), get(id) and export(id) answer 404 and list() has no
\* entry for the id; the delete leaves every other record unchanged; and
\* only a create adds an id to the table.
C9_DeletedIsGone ==
  /\ (req.op = "delete" /\ resp.status = 200) =>
       /\ resp.ack = "deleted"
       /\ GetCandidate(store, req.id).resp.status = 404
       /\ \A outcome \in ChromiumOutcomes :
            ExportCandidate(store, fs, req.id, outcome).resp.status = 404
       /\ \A e \in ListCandidates(store).resp.candidates : e.id # JStr(req.id)
       /\ store = OtherRows(prev, req.id)
  /\ req.op # "create" => StoredIds(store) \subseteq StoredIds(prev)

C9_Witness ==
  /\ req.op = "delete"
  /\ resp.status = 200
  /\ req.id \in StoredIds(prev)
  /\ store # {}

\* C10: a delete, or an update carrying at least one allow-listed field, of
\* an id that is not stored reports success and leaves the table unchanged.
C10_AbsentIdSucceeds ==
  (/\ req.id \notin StoredIds(prev)
   /\ \/ req.op = "delete"
      \/ req.op = "update" /\ DOMAIN req.body \cap MutableFields # {}) =>
    /\ resp.status = 200
    /\ resp.ack = (IF req.op = "delete" THEN "deleted" ELSE "updated")
    /\ store = prev

\* C11: an export of an id that is not stored is answered 404, and on that
\* path Chromium is never started and no temporary HTML or PDF file is
\* created.
C11_UnknownIdNotRendered ==
  (req.op = "export" /\ req.id \notin StoredIds(prev)) =>
    /\ resp.status = 404
    /\ resp.error = "Candidate not found"
    /\ ~spawned
    /\ made = {}

\* an export of an id that is not stored, while another record is stored and
\* an earlier export has left its files behind
C11_Witness ==
  /\ req.op = "export"
  /\ req.id \notin StoredIds(prev)
  /\ prev # {}
  /\ fs # {}
  /\ resp.status = 404

\* the error kind of a response: its status and the fixed text of its error
\* body, without the diagnostic that follows it
ErrorKind(response) == <<response.status, response.error>>

\* C12: a missing Chromium executable and a Chromium that exits non-zero
\* never yield the same error kind.
C12_DistinctErrorKinds ==
  (req.op = "export" /\ resp.detail = ChromiumError("missing")) =>
    ErrorKind(resp) # ErrorKind(ExportCandidate(prev, fs, req.id, "nonzero").resp)

\* C13: a PUT whose body is not parseable as JSON, or is JSON but no object,
\* is answered 400 and leaves the table unchanged.
C13_MalformedBodyRejected ==
  req.op = "update_malformed" => (resp.status = 400 /\ store = prev)

\* C15: an export of a stored record whose ratings are null or an empty
\* mapping reaches Chromium with an HTML document whose ratings table has no
\* body row, and is answered with the PDF or with the error of the
\* rendering step.
C15_EmptyRatingsRendered ==
  (/\ req.op = "export"
   /\ req.id \in StoredIds(prev)
   /\ Fetched(prev, req.id)["ratings"] \in {JNull, JObj(<<>>)}) =>
    LET html == build_html(Fetched(prev, req.id))
    IN  /\ spawned
        /\ \A i \in 1..Len(html) : html[i] # "<tr><td>"
        /\ \/ resp.status = 200 /\ resp.pdf = PrintToPdf(html)
           \/ /\ resp.status = 500
              /\ resp.error = "PDF generation failed: "
              /\ \E outcome \in ChromiumOutcomes : resp.detail = ChromiumError(outcome)

\* a record whose ratings were set to the empty mapping was exported
C15_Witness ==
  /\ req.op = "export"
  /\ \E r \in prev : r["id"] = SText(req.id) /\ r["ratings"] = SText(<<"{", "}">>)
  /\ resp.status = 200

\* C16: in every reachable state the listing has exactly one entry per stored
\* record, each entry carries only id, created_at and consented, and the
\* three values are the record's current values.
C16_ListMatchesStore ==
  LET listed == ListCandidates(store).resp
  IN  /\ listed.status = 200
      /\ {e.id : e \in listed.candidates} = {JStr(id) : id \in StoredIds(store)}
      /\ Cardinality(listed.candidates) = Cardinality(store)
      /\ \A e \in listed.candidates :
           /\ DOMAIN e = {"id", "created_at", "consented"}
           /\ e.created_at = Fetched(store, e.id.s)["created_at"]
           /\ e.consented = Fetched(store, e.id.s)["consented"]
      /\ req.op = "list" => resp = listed

\* a listing of two records, one of them consented
C16_Witness ==
  /\ req.op = "list"
  /\ Cardinality(resp.candidates) = 2
  /\ \E e \in resp.candidates : e.consented = JBool(TRUE)
  /\ \E e \in resp.candidates : e.consented = JBool(FALSE)

\* the JSON values Python treats as false
Falsy == {JNull, JBool(FALSE), JInt(0), JStr(<<>>), JObj(<<>>)}

\* C17: the stored consented of every record is 0 or 1, and after a
\* successful update of a stored record whose body carries consented, get
\* returns consented as the boolean truthiness of the value sent.
C17_ConsentedNormalized ==
  /\ \A r \in store : r["consented"] \in {SInt(0), SInt(1)}
  /\ (UpdatedExisting /\ "consented" \in DOMAIN req.body) =>
       Fetched(store, req.id)["consented"] = JBool(req.body["consented"] \notin Falsy)

\* consent was withdrawn by sending the empty string
C17_Witness ==
  /\ UpdatedExisting
  /\ DOMAIN req.body = {"consented"}
  /\ req.body["consented"] = JStr(<<>>)
  /\ \E r \in prev : r["id"] = SText(req.id) /\ r["consented"] = SInt(1)
  /\ \E r \in store : r["id"] = SText(req.id) /\ r["consented"] = SInt(0)

(* ---------------- properties of requests in flight (ConcSpec) ----------- *)
\* the paths a request in flight is using
PathsInUse(p) ==
  IF procs[p].pc \in {"spawn", "wait", "read", "render", "send"}
  THEN (IF procs[p].pdf_path.suffix = "" THEN {} ELSE {procs[p].pdf_path})
       \cup (IF procs[p].html_path.suffix = "" THEN {} ELSE {procs[p].html_path})
  ELSE {}

\* the token sequence part occurs in text
Occurs(part, text) ==
  \E k \in 1..(Len(text) - Len(part) + 1) : SubSeq(text, k, k + Len(part) - 1) = part

\* the requests of slots p and q have run at the same time
Overlapped(p, q) == q \in procs[p].met \/ p \in procs[q].met

Answered200(p) == procs[p].pc = "done" /\ procs[p].resp.status = 200

\* C14: of two exports of different ids, the paths in use at the same time
\* are distinct, and each PDF sent is one of the request's own candidate,
\* not the rendering of the other request's HTML.
C14_ExportsOfTwoIdsSeparate ==
  \A p, q \in Slots :
    (/\ p # q
     /\ procs[p].op = "export"
     /\ procs[q].op = "export"
     /\ procs[p].id # procs[q].id) =>
      /\ PathsInUse(p) \cap PathsInUse(q) = {}
      /\ Answered200(p) =>
           /\ Occurs(procs[p].id, procs[p].resp.pdf)
           /\ ~Occurs(procs[q].id, procs[p].resp.pdf)
           /\ procs[p].resp.pdf # PrintToPdf(procs[q].html)

\* two exports of different ids overlapped and both sent a PDF
C14_Witness ==
  \E p, q \in Slots :
    /\ p # q
    /\ procs[p].op = "export"
    /\ procs[q].op = "export"
    /\ procs[p].id # procs[q].id
    /\ Overlapped(p, q)
    /\ Answered200(p)
    /\ Answered200(q)
    /\ procs[p].resp.pdf # procs[q].resp.pdf

\* C18: every export request is eventually answered.
C18_ExportEventuallyAnswered ==
  \A p \in Slots : (procs[p].op = "export" /\ InFlight(p)) ~> (procs[p].pc = "done")

\* C19: when two updates of the same stored record have run at the same time
\* and both were answered 200, the record holds for every allow-listed field
\* of the one that committed later the value it sent, and for every other
\* allow-listed field of the earlier one the value that one sent.
C19_ConcurrentUpdatesAtomic ==
  \A p, q \in Slots :
    (/\ p # q
     /\ procs[p].op = "update"
     /\ procs[q].op = "update"
     /\ procs[p].id = procs[q].id
     /\ procs[p].id \in StoredIds(store)
     /\ Answered200(p)
     /\ Answered200(q)
     /\ Overlapped(p, q)
     /\ latest = q) =>
      LET got == Fetched(store, procs[p].id)
          later == DOMAIN procs[q].data \cap MutableFields
          earlier == (DOMAIN procs[p].data \cap MutableFields) \ later
      IN  /\ \A key \in later : got[key] = ReadBack(key, procs[q].data[key])
          /\ \A key \in earlier : got[key] = ReadBack(key, procs[p].data[key])

\* two overlapping updates of one record, one with fields the other has not
\* and one field in common, have both committed
C19_Witness ==
  \E p, q \in Slots :
    /\ p # q
    /\ procs[p].op = "update"
    /\ procs[q].op = "update"
    /\ procs[p].id = procs[q].id
    /\ Answered200(p)
    /\ Answered200(q)
    /\ Overlapped(p, q)
    /\ latest = q
    /\ DOMAIN procs[p].data = {"notes", "conclusion"}
    /\ DOMAIN procs[q].data = {"notes"}
    /\ Fetched(store, procs[p].id)["conclusion"] = JStr(<<"c">>)
    /\ Fetched(store, procs[p].id)["notes"] = JStr(<<"b">>)

\* C20: in src/app.py the PDF an export sends is the rendering of the HTML
\* that request built from the record it fetched.
C20_ExportSendsOwnRendering ==
  \A p \in Slots :
    (impl = "app.py" /\ procs[p].op = "export" /\ Answered200(p)) =>
      procs[p].resp.pdf = PrintToPdf(procs[p].html)

(* ------------------------ frame and escaping (Spec) --------------------- *)
\* C21: get, list and export leave the table as it was, whatever they
\* answer: no record added, removed or changed, and the ratings default of
\* export is not stored.
C21_ReadsLeaveStore ==
  req.op \in {"get", "list", "export"} => store = prev

\* an export of a record without ratings reached Chromium and the record's
\* ratings are still NULL
C21_Witness ==
  /\ req.op = "export"
  /\ spawned
  /\ \E r \in store : r["id"] = SText(req.id) /\ r["ratings"] = SNull
  /\ \E r \in store : r["id"] # SText(req.id)
  /\ store = prev

\* the markup characters; a character of a stored value is one token, the
\* markup of the template is part of longer tokens
MarkupCharacters == {"<", ">", "&"}

\* C22: the HTML an export hands to Chromium holds no unescaped '<', '>' or
\* '&' that comes from a value of the record.
C22_NoRawMarkup ==
  (req.op = "export" /\ spawned) =>
    LET html == build_html(Fetched(prev, req.id))
    IN  \A i \in 1..Len(html) : html[i] \notin MarkupCharacters

====
